---------------------------- MODULE Spec2Model ----------------------------
(***************************************************************************)
(* MCQ Genie backend: the test pipeline (generation from an LLM            *)
(* completion, the test-session store, submission and scoring) as a state  *)
(* machine.  Requests run concurrently; a request's handler is cut at its  *)
(* await points, and every document-store operation is one atomic step.    *)
(***************************************************************************)
EXTENDS Integers, Sequences, FiniteSets, TLC

(***************************************************************************)
(* Bounds of the model.                                                    *)
(***************************************************************************)
MaxTests == 1         \* test sessions that can be created
MaxLen == 2           \* elements in the JSON array of a completion
MaxAnswers == 1       \* answers in one submission
MaxRequested == 3     \* largest num_questions a request asks for
MaxTime == 1          \* last reading of the clock (readings are 0..MaxTime)
MaxEvalAnswers == 2   \* answers in one submission, where the scoring is examined
MaxScoreTotal == 10   \* largest argument given to calculate_score_percentage
MaxChatSessions == 2  \* chat sessions in the store
MaxChatTurns == 2     \* chat turns started

(***************************************************************************)
(* Program constants.                                                      *)
(***************************************************************************)
max_mcq_count == 50
test_time_limit_minutes == 30
OptionCount == 4

\* Concurrent request slots: two requests can be in flight at a time.
Procs == {"r1", "r2"}

TestIds == 1..MaxTests
Topics == {"Photosynthesis"}
DifficultyLevel == {"easy", "medium", "hard"}
OptionIds == <<"A", "B", "C", "D">>
ValidAnswers == {"A", "B", "C", "D"}
IN_PROGRESS == "in_progress"
COMPLETED == "completed"
EXPIRED == "expired"

\* Optional[T]: None is the empty sequence, a present value v is <<v>>.
None == <<>>
Some(v) == <<v>>

Min(a, b) == IF a <= b THEN a ELSE b

Range(s) == {s[i] : i \in DOMAIN s}

\* All sequences over S of length 0..n.
SeqUpTo(S, n) == UNION {[1..k -> S] : k \in 0..n}

VARIABLES
    settings,   \* the loaded Settings (the fields the test pipeline reads)
    store,      \* test_sessions collection: test_id -> TestSessionDB document
    chat_sessions,  \* chat_sessions collection: session_id -> ChatSessionDB document
    now,        \* the clock read by datetime.utcnow()
    pc,         \* where each request slot is in its handler
    llm,        \* the chat-completion answer a slot has received
    arg,        \* the request a slot is serving
    tmp,        \* the handler's local variables across an await
    response    \* the last response a slot returned to its caller

vars == <<settings, store, chat_sessions, now, pc, llm, arg, tmp, response>>


(***************************************************************************)
(* Schemas (app/models/schemas.py).                                        *)
(***************************************************************************)

\* MCQOption(option_id, text)
MCQOption(option_id, text) == [option_id |-> option_id, text |-> text]

\* The validator of MCQuestion.correct_answer.
validate_correct_answer(v) == v \in ValidAnswers

\* The fields of an MCQuestion, as given to its constructor.
MCQuestionFields(question_id, question_text, options, correct_answer, explanation, difficulty) ==
    [question_id |-> question_id, question_text |-> question_text,
     options |-> options, correct_answer |-> correct_answer,
     explanation |-> explanation, difficulty |-> difficulty]

\* Constructing an MCQuestion runs the field validation: exactly 4 options
\* (min_items = max_items = 4) and the correct_answer validator.  The
\* construction raises a ValidationError when it fails.
MCQuestionValid(q) ==
    /\ Len(q.options) = OptionCount
    /\ validate_correct_answer(q.correct_answer)

\* The id of the idx-th question (0-based idx), f"q_{idx + 1}", kept as its
\* parts around the "_" separator.
QuestionId(idx) == <<"q", idx + 1>>

(***************************************************************************)
(* The completion text.  A text is a sequence of tokens: whitespace, the   *)
(* three-backtick fence, the tag "json", and JSON values.  A JSON array    *)
(* carries its elements; an element is a dict (a function from the keys it *)
(* has to their values).                                                   *)
(***************************************************************************)
Tok(t) == [t |-> t, items |-> <<>>]
WS == Tok("ws")
FENCE == Tok("fence")
JSONTAG == Tok("json")
JsonObject == Tok("object")
JsonString == Tok("string")
NotJson == Tok("junk")
JsonArray(items) == [t |-> "array", items |-> items]

Without(d, k) == [x \in DOMAIN d \ {k} |-> d[x]]

FullOptions == [o \in ValidAnswers |-> "option text"]
Draft1 == [question |-> "first question", options |-> FullOptions,
           correct_answer |-> "A", explanation |-> "because"]
Draft2 == [question |-> "second question", options |-> FullOptions,
           correct_answer |-> "B", difficulty |-> "hard"]
GoodDrafts == {Draft1, Draft2}
BadDrafts ==
    {Without(Draft1, "question"), Without(Draft1, "options"),
     Without(Draft1, "correct_answer"),
     [Draft1 EXCEPT !.correct_answer = "E"],
     [Draft2 EXCEPT !.correct_answer = "a"]}
    \cup {[Draft2 EXCEPT !.options = Without(FullOptions, o)] : o \in ValidAnswers}
Drafts == GoodDrafts \cup BadDrafts

\* The arrays of the model: well-formed elements throughout, or one element
\* of them replaced by a malformed one.
GoodArrays == SeqUpTo(GoodDrafts, MaxLen)
Arrays ==
    {<<JsonArray(a)>> : a \in GoodArrays}
    \cup UNION {{<<JsonArray([a EXCEPT ![i] = bad])>> :
                     i \in DOMAIN a, bad \in BadDrafts} : a \in GoodArrays}
\* The bodies that are tried in every wrapping.
Bodies ==
    {<<>>, <<JsonObject>>, <<JsonString>>, <<NotJson>>, <<JsonArray(<<>>)>>,
     <<JsonArray(<<Draft1>>)>>, <<JsonArray(<<Without(Draft2, "question")>>)>>}
Prefixes == {<<>>, <<WS>>, <<FENCE>>, <<FENCE, JSONTAG>>, <<FENCE, JSONTAG, WS>>,
             <<JSONTAG>>, <<FENCE, FENCE>>, <<FENCE, WS, JSONTAG>>,
             <<FENCE, JSONTAG, FENCE>>}
Suffixes == {<<>>, <<WS>>, <<FENCE>>, <<WS, FENCE, WS>>, <<FENCE, FENCE>>}

\* What the chat-completion endpoint can answer.
CompletionTexts ==
    Arrays \cup {pre \o b \o suf : pre \in Prefixes, b \in Bodies, suf \in Suffixes}

(***************************************************************************)
(* LLMService (app/services/llm_service.py).                               *)
(***************************************************************************)

\* str.strip(): drop the whitespace at both ends.
RECURSIVE lstrip(_)
lstrip(s) == IF s # <<>> /\ Head(s) = WS THEN lstrip(Tail(s)) ELSE s
RECURSIVE rstrip(_)
rstrip(s) == IF s # <<>> /\ s[Len(s)] = WS THEN rstrip(SubSeq(s, 1, Len(s) - 1)) ELSE s
strip(s) == rstrip(lstrip(s))

\* response.startswith(fence + "json"), response.startswith(fence),
\* response.endswith(fence), where fence is the three-backtick marker.
startswith_json_fence(s) == Len(s) >= 2 /\ s[1] = FENCE /\ s[2] = JSONTAG
startswith_fence(s) == Len(s) >= 1 /\ s[1] = FENCE
endswith_fence(s) == Len(s) >= 1 /\ s[Len(s)] = FENCE

\* The markdown code-block removal at the head of _parse_mcq_response.
remove_code_block(raw) ==
    LET r0 == strip(raw)
        r1 == IF startswith_json_fence(r0) THEN SubSeq(r0, 3, Len(r0)) ELSE r0
        r2 == IF startswith_fence(r1) THEN Tail(r1) ELSE r1
        r3 == IF endswith_fence(r2) THEN SubSeq(r2, 1, Len(r2) - 1) ELSE r2
    IN  strip(r3)

\* json.loads succeeds on exactly one JSON value (the text is stripped).
json_loads_ok(s) == Len(s) = 1 /\ s[1].t \in {"array", "object", "string"}

\* The outcome of a call: its value, or the exception it raised.  An
\* exception is its chain of messages, the outermost first.
Ok(v) == [ok |-> TRUE, value |-> v, error |-> <<>>]
Err(e) == [ok |-> FALSE, value |-> <<>>, error |-> e]

\* A parser that answers an empty list for a text it cannot use.
parse_mcq_response_lenient(raw) ==
    LET r == remove_code_block(raw) IN
    IF json_loads_ok(r) /\ r[1].t = "array" THEN Ok(r[1].items) ELSE Ok(<<>>)

\* _parse_mcq_response: the list of dicts, or an exception.
parse_mcq_response(raw) ==
    LET r == remove_code_block(raw) IN
    IF ~json_loads_ok(r) THEN Err(<<"Failed to parse MCQ response as JSON">>)
    ELSE IF r[1].t # "array" THEN Err(<<"Response is not a list">>)
    ELSE Ok(r[1].items)

\* The subscripts of one loop body of generate_mcqs raise KeyError unless
\* the element has these keys.
has_required_keys(mcq) ==
    /\ "question" \in DOMAIN mcq
    /\ "options" \in DOMAIN mcq
    /\ \A o \in ValidAnswers : o \in DOMAIN mcq.options
    /\ "correct_answer" \in DOMAIN mcq

\* A conversion that takes the difficulty the element carries, when it has one.
question_of_llm_difficulty(idx, mcq, difficulty) ==
    MCQuestionFields(
        QuestionId(idx),
        mcq.question,
        [i \in 1..OptionCount |-> MCQOption(OptionIds[i], mcq.options[OptionIds[i]])],
        mcq.correct_answer,
        Some(IF "explanation" \in DOMAIN mcq THEN mcq.explanation ELSE ""),
        IF "difficulty" \in DOMAIN mcq THEN mcq.difficulty ELSE difficulty)

\* The MCQuestion built from the idx-th (0-based) element.
question_of(idx, mcq, difficulty) ==
    MCQuestionFields(
        QuestionId(idx),
        mcq.question,
        [i \in 1..OptionCount |-> MCQOption(OptionIds[i], mcq.options[OptionIds[i]])],
        mcq.correct_answer,
        Some(IF "explanation" \in DOMAIN mcq THEN mcq.explanation ELSE ""),
        difficulty)

\* The exception the loop body raises for this element, <<>> when none.
element_error(idx, mcq, difficulty) ==
    IF ~has_required_keys(mcq) THEN <<"KeyError">>
    ELSE IF ~MCQuestionValid(question_of(idx, mcq, difficulty))
         THEN <<"correct_answer must be A, B, C, or D">>
         ELSE <<>>

\* A conversion loop that skips the elements that raise.
convert_mcqs_skip_bad(mcqs_data, difficulty) ==
    LET good == SelectSeq([i \in 1..Len(mcqs_data) |-> i],
                    LAMBDA i : element_error(i - 1, mcqs_data[i], difficulty) = <<>>)
    IN  Ok([k \in 1..Len(good) |->
               question_of(good[k] - 1, mcqs_data[good[k]], difficulty)])

\* The conversion loop of generate_mcqs over the parsed list: the first
\* exception leaves the loop and fails the call.
convert_mcqs(mcqs_data, difficulty) ==
    LET bad == {i \in 1..Len(mcqs_data) :
                   element_error(i - 1, mcqs_data[i], difficulty) # <<>>}
    IN  IF bad = {}
        THEN Ok([i \in 1..Len(mcqs_data) |->
                    question_of(i - 1, mcqs_data[i], difficulty)])
        ELSE LET first == CHOOSE i \in bad : \A j \in bad : i <= j
             IN  Err(element_error(first - 1, mcqs_data[first], difficulty))

\* What chat_completion hands back: the text, or ChatFailure when the call
\* to the endpoint raised.  NoCompletion: nothing received.
ChatFailure == <<Tok("raise")>>
NoCompletion == <<Tok("none")>>
Completions == CompletionTexts \cup {ChatFailure}

\* generate_mcqs, given what chat_completion did: the questions or an exception.
\* Every exception is wrapped in "Failed to generate MCQs: ...".
generate_mcqs(completion, difficulty) ==
    LET outcome ==
            IF completion = ChatFailure THEN Err(<<"Failed to get LLM response">>)
            ELSE LET parsed == parse_mcq_response(completion) IN
                 IF ~parsed.ok THEN parsed
                 ELSE convert_mcqs(parsed.value, difficulty)
    IN  IF outcome.ok THEN outcome
        ELSE Err(<<"Failed to generate MCQs">> \o outcome.error)

(***************************************************************************)
(* Helpers (app/utils/helpers.py).                                         *)
(***************************************************************************)

\* A score cut off after 2 decimals instead of rounded.
calculate_score_percentage_truncated(correct, total) ==
    IF total = 0 THEN 0
    ELSE (100 * 100 * correct) \div total

\* calculate_score_percentage, in hundredths of a percent: 0.0 for total = 0,
\* else round((correct / total) * 100, 2).  round() goes to the nearest
\* hundredth; a value exactly half way between two hundredths is a binary
\* fraction (as 3.125 for 1 of 32), which round() takes to the even one.
calculate_score_percentage(correct, total) ==
    IF total = 0 THEN 0
    ELSE LET scaled == 100 * 100 * correct
             low == scaled \div total
             twice_rest == 2 * (scaled % total)
         IN  IF twice_rest < total THEN low
             ELSE IF twice_rest > total THEN low + 1
             ELSE IF low % 2 = 0 THEN low ELSE low + 1

(***************************************************************************)
(* DatabaseService (app/services/db_service.py): the test_sessions         *)
(* collection.  Each operation is one atomic document-store operation.     *)
(***************************************************************************)

\* TestSessionDB as create_test_session builds it: the optional fields keep
\* their defaults.
TestSessionDB(test_id, topic, questions, difficulty, time_limit, created_at) ==
    [test_id |-> test_id, topic |-> topic, questions |-> questions,
     difficulty |-> difficulty, status |-> IN_PROGRESS,
     time_limit_minutes |-> time_limit, created_at |-> created_at,
     submitted_at |-> None, answers |-> None, result |-> None]

\* generate_id("test_"): a fresh identifier (uuid4), here the next unused one.
generate_id(s) == Cardinality(DOMAIN s) + 1

\* create_test_session: insert_one of a new in_progress document.
create_test_session(s, test_id, topic, questions, difficulty, time_limit, t) ==
    [i \in DOMAIN s \cup {test_id} |->
        IF i = test_id
        THEN TestSessionDB(test_id, topic, questions, difficulty, time_limit, t)
        ELSE s[i]]

\* get_test_session: find_one by test_id.
get_test_session(s, test_id) ==
    IF test_id \in DOMAIN s THEN Some(s[test_id]) ELSE None

\* A write of the answers and the result that leaves the status as it is.
submit_test_answers_keep_status(s, test_id, answers, result, t) ==
    IF test_id \in DOMAIN s
    THEN [s EXCEPT ![test_id] =
            [@ EXCEPT !.answers = Some(answers), !.result = Some(result),
                      !.submitted_at = Some(t)]]
    ELSE s

\* submit_test_answers: update_one({"test_id": test_id}, {"$set": ...}).
submit_test_answers(s, test_id, answers, result, t) ==
    IF test_id \in DOMAIN s
    THEN [s EXCEPT ![test_id] =
            [@ EXCEPT !.answers = Some(answers), !.result = Some(result),
                      !.status = COMPLETED, !.submitted_at = Some(t)]]
    ELSE s

\* get_test_result: the stored result, or None.
get_test_result(s, test_id) ==
    LET test_session == get_test_session(s, test_id) IN
    IF test_session # None /\ test_session[1].result # None
    THEN test_session[1].result
    ELSE None

\* mark_test_expired: update_one({"test_id": test_id}, {"$set": {"status": EXPIRED}}).
mark_test_expired(s, test_id) ==
    IF test_id \in DOMAIN s
    THEN [s EXCEPT ![test_id] = [@ EXCEPT !.status = EXPIRED]]
    ELSE s

(***************************************************************************)
(* TestController (app/controllers/test_controller.py).                    *)
(***************************************************************************)

\* A generate_test that passes the requested count on as it is.
clamp_num_questions_unclamped(requested, configured_max) == requested

\* The first statement of generate_test: the count passed to the LLM.
clamp_num_questions(requested, configured_max) == Min(requested, configured_max)

\* The copy _prepare_public_questions builds of one question.
public_question(q) ==
    MCQuestionFields(q.question_id, q.question_text, q.options, "", None,
                     q.difficulty)

\* _prepare_public_questions: building a copy runs the MCQuestion
\* validation, and the call raises when a copy fails it.
prepare_public_questions(questions) ==
    IF \A i \in 1..Len(questions) : MCQuestionValid(public_question(questions[i]))
    THEN Ok([i \in 1..Len(questions) |-> public_question(questions[i])])
    ELSE Err(<<"correct_answer must be A, B, C, or D">>)

AnswerSubmission(question_id, selected_answer) ==
    [question_id |-> question_id, selected_answer |-> selected_answer]

\* A validator that lets every value through.
validate_selected_answer_any(v) == TRUE

\* The validator of AnswerSubmission.selected_answer.
validate_selected_answer(v) == v \in ValidAnswers

\* Parsing the body of a submit request into a TestSubmission builds every
\* AnswerSubmission of it, which runs the validator on each.
TestSubmissionValid(submission) ==
    \A i \in 1..Len(submission.answers) :
        validate_selected_answer(submission.answers[i].selected_answer)

\* A lookup that keeps, for a key given several times, the value given first.
RECURSIVE answer_map_get_first(_, _)
answer_map_get_first(answers, question_id) ==
    IF answers = <<>> THEN ""
    ELSE IF Head(answers).question_id = question_id
         THEN Head(answers).selected_answer
         ELSE answer_map_get_first(Tail(answers), question_id)

\* answer_map.get(question_id, ""): the dict comprehension keeps, for a key
\* given several times, the value given last.
RECURSIVE answer_map_get(_, _)
answer_map_get(answers, question_id) ==
    IF answers = <<>> THEN ""
    ELSE IF answers[Len(answers)].question_id = question_id
         THEN answers[Len(answers)].selected_answer
         ELSE answer_map_get(SubSeq(answers, 1, Len(answers) - 1), question_id)

\* A QuestionResult that reports the looked-up value as it is.
QuestionResult_blank_unanswered(question, answers) ==
    LET selected == answer_map_get(answers, question.question_id) IN
    [question_id |-> question.question_id,
     question_text |-> question.question_text,
     selected_answer |-> selected,
     correct_answer |-> question.correct_answer,
     is_correct |-> (selected = question.correct_answer),
     explanation |-> question.explanation]

\* The QuestionResult of one question.
QuestionResult(question, answers) ==
    LET selected == answer_map_get(answers, question.question_id) IN
    [question_id |-> question.question_id,
     question_text |-> question.question_text,
     selected_answer |-> IF selected # "" THEN selected ELSE "Not answered",
     correct_answer |-> question.correct_answer,
     is_correct |-> (selected = question.correct_answer),
     explanation |-> question.explanation]

\* An evaluation that walks the answers: one result per answer that names a
\* question, in the order of the answers.
evaluate_test_answer_order(questions, answers, topic, t) ==
    LET matched == SelectSeq(answers, LAMBDA a :
                       \E i \in 1..Len(questions) : questions[i].question_id = a.question_id)
        question_at(k) == questions[CHOOSE i \in 1..Len(questions) :
                              questions[i].question_id = matched[k].question_id]
        results == [k \in 1..Len(matched) |-> QuestionResult(question_at(k), answers)]
        correct_count == Cardinality({k \in 1..Len(matched) : results[k].is_correct})
        total_questions == Len(questions)
    IN  [test_id |-> IF questions # <<>> THEN Head(questions[1].question_id)
                     ELSE "unknown",
         topic |-> topic,
         total_questions |-> total_questions,
         correct_answers |-> correct_count,
         wrong_answers |-> total_questions - correct_count,
         score_percentage |-> calculate_score_percentage(correct_count, total_questions),
         results |-> results,
         completed_at |-> t]

\* An evaluation that counts as wrong only the questions that were answered.
evaluate_test_wrong_answered_only(questions, answers, topic, t) ==
    LET results == [i \in 1..Len(questions) |-> QuestionResult(questions[i], answers)]
        correct_count == Cardinality({i \in 1..Len(questions) : results[i].is_correct})
        total_questions == Len(questions)
    IN  [test_id |-> IF questions # <<>> THEN Head(questions[1].question_id)
                     ELSE "unknown",
         topic |-> topic,
         total_questions |-> total_questions,
         correct_answers |-> correct_count,
         wrong_answers |-> Cardinality({i \in 1..Len(questions) :
                               /\ ~results[i].is_correct
                               /\ results[i].selected_answer # "Not answered"}),
         score_percentage |-> calculate_score_percentage(correct_count, total_questions),
         results |-> results,
         completed_at |-> t]

\* _evaluate_test, evaluated when the clock reads t.
evaluate_test(questions, answers, topic, t) ==
    LET results == [i \in 1..Len(questions) |-> QuestionResult(questions[i], answers)]
        correct_count == Cardinality({i \in 1..Len(questions) : results[i].is_correct})
        total_questions == Len(questions)
    IN  [test_id |-> IF questions # <<>> THEN Head(questions[1].question_id)
                     ELSE "unknown",
         topic |-> topic,
         total_questions |-> total_questions,
         correct_answers |-> correct_count,
         wrong_answers |-> total_questions - correct_count,
         score_percentage |-> calculate_score_percentage(correct_count, total_questions),
         results |-> results,
         completed_at |-> t]

\* A submit_test that takes a missing session for an expired one.
submit_test_check_missing_as_expired(test_session) ==
    IF test_session = None THEN <<"Test has expired">>
    ELSE IF test_session[1].status = COMPLETED THEN <<"Test already submitted">>
    ELSE IF test_session[1].status = EXPIRED THEN <<"Test has expired">>
    ELSE <<>>

\* submit_test without its check for a completed session.
submit_test_check_no_completed(test_session) ==
    IF test_session = None THEN <<"Test not found">>
    ELSE IF test_session[1].status = EXPIRED THEN <<"Test has expired">>
    ELSE <<>>

\* submit_test without its check for an expired session.
submit_test_check_no_expired(test_session) ==
    IF test_session = None THEN <<"Test not found">>
    ELSE IF test_session[1].status = COMPLETED THEN <<"Test already submitted">>
    ELSE <<>>

\* The status checks of submit_test on the session it read: the error it
\* raises, or <<>> when the submission goes on to be evaluated.
submit_test_check(test_session) ==
    IF test_session = None THEN <<"Test not found">>
    ELSE IF test_session[1].status = COMPLETED THEN <<"Test already submitted">>
    ELSE IF test_session[1].status = EXPIRED THEN <<"Test has expired">>
    ELSE <<>>

MCQGenerationResponse(test_id, topic, questions, total_questions, time_limit, created_at) ==
    [test_id |-> test_id, topic |-> topic, questions |-> questions,
     total_questions |-> total_questions, time_limit_minutes |-> time_limit,
     created_at |-> created_at]

\* get_test_details: None for an id without a session, else the public view
\* of the session; the call raises when the public view cannot be built.
get_test_details(s, test_id) ==
    LET test_session == get_test_session(s, test_id) IN
    IF test_session = None THEN Ok(None)
    ELSE LET public_questions == prepare_public_questions(test_session[1].questions)
         IN  IF public_questions.ok
             THEN Ok(Some(MCQGenerationResponse(
                      test_session[1].test_id, test_session[1].topic,
                      public_questions.value, Len(test_session[1].questions),
                      test_session[1].time_limit_minutes,
                      test_session[1].created_at)))
             ELSE Err(public_questions.error)

(***************************************************************************)
(* Requests and responses.                                                 *)
(***************************************************************************)
NoResponse == [kind |-> "none", body |-> <<>>]
ErrorResponse(e) == [kind |-> "error", body |-> e]
NotFoundResponse == [kind |-> "not_found", body |-> <<>>]
TestResponse(r) == [kind |-> "test", body |-> r]
ResultResponse(r) == [kind |-> "result", body |-> r]
ScoreResponse(score) == [kind |-> "score", body |-> score]
StatusResponse(test_id, test_details, status) ==
    [kind |-> "status",
     body |-> [test_id |-> test_id, topic |-> test_details.topic, status |-> status,
               total_questions |-> test_details.total_questions,
               time_limit_minutes |-> test_details.time_limit_minutes,
               created_at |-> test_details.created_at]]

MCQGenerationRequests ==
    [topic : Topics, num_questions : 1..MaxRequested, difficulty : DifficultyLevel]

\* The ids a caller can name: those of the store and one that is never issued.
RequestIds == 0..MaxTests
SelectedAnswers == {"A", "B"}
AnswerSubmissions ==
    {AnswerSubmission(QuestionId(i), a) : i \in 0..(MaxLen - 1), a \in SelectedAnswers}
TestSubmissions ==
    [test_id : RequestIds, answers : SeqUpTo(AnswerSubmissions, MaxAnswers)]

NoArg == <<>>
NoTmp == <<>>

\* The values max_mcq_count is configured to: the default, and a smaller one.
ConfiguredMaxCounts == {max_mcq_count, MaxRequested - 1}

\* The generations that will still insert a session.
PendingGenerations == {p \in Procs : pc[p] \in {"generate_llm", "generate_parse"}}

\* generate_test up to the await of the LLM call: clamp the count, build the
\* prompts for that count and send them.
GenerateTestCall(p, request) ==
    /\ pc[p] = "idle"
    /\ Cardinality(DOMAIN store) + Cardinality(PendingGenerations) < MaxTests
    /\ arg' = [arg EXCEPT ![p] = request]
    /\ tmp' = [tmp EXCEPT ![p] =
            [num_questions |-> clamp_num_questions(request.num_questions,
                                                   settings.max_mcq_count),
             llm_calls |-> 0]]
    /\ pc' = [pc EXCEPT ![p] = "generate_llm"]
    /\ response' = [response EXCEPT ![p] = NoResponse]
    /\ UNCHANGED <<settings, chat_sessions, store, now, llm>>

\* chat_completion: one call of the endpoint (counted in llm_calls), which
\* answers with a text, or the call raises.
ChatCompletion(p, completion) ==
    /\ pc[p] = "generate_llm"
    /\ llm' = [llm EXCEPT ![p] = completion]
    /\ tmp' = [tmp EXCEPT ![p].llm_calls = @ + 1]
    /\ pc' = [pc EXCEPT ![p] = "generate_parse"]
    /\ UNCHANGED <<settings, chat_sessions, store, now, arg, response>>

\* A generate_test that calls the LLM again when generate_mcqs raised.
GenerateTestCreate_retry(p) ==
    /\ pc[p] = "generate_parse"
    /\ llm' = [llm EXCEPT ![p] = NoCompletion]
    /\ LET questions == generate_mcqs(llm[p], arg[p].difficulty)
           test_id == generate_id(store)
       IN  IF ~questions.ok
           THEN /\ pc' = [pc EXCEPT ![p] = "generate_llm"]
                /\ UNCHANGED <<store, tmp, arg, response>>
           ELSE /\ store' = create_test_session(store, test_id, arg[p].topic,
                                questions.value, arg[p].difficulty,
                                settings.test_time_limit_minutes, now)
                /\ tmp' = [tmp EXCEPT ![p] =
                              [test_id |-> test_id, questions |-> questions.value,
                               llm_calls |-> tmp[p].llm_calls]]
                /\ pc' = [pc EXCEPT ![p] = "generate_respond"]
                /\ UNCHANGED <<arg, response>>
    /\ UNCHANGED <<settings, chat_sessions, now>>

\* generate_test from the LLM's answer to the insert of the session:
\* generate_mcqs parses and converts the completion; when it raises, the
\* request ends with the error, else create_test_session inserts.
GenerateTestCreate(p) ==
    /\ pc[p] = "generate_parse"
    /\ llm' = [llm EXCEPT ![p] = NoCompletion]
    /\ LET questions == generate_mcqs(llm[p], arg[p].difficulty)
           test_id == generate_id(store)
       IN  IF ~questions.ok
           THEN /\ response' = [response EXCEPT ![p] = ErrorResponse(questions.error)]
                /\ pc' = [pc EXCEPT ![p] = "idle"]
                /\ tmp' = [tmp EXCEPT ![p] = NoTmp]
                /\ arg' = [arg EXCEPT ![p] = NoArg]
                /\ UNCHANGED store
           ELSE /\ store' = create_test_session(store, test_id, arg[p].topic,
                                questions.value, arg[p].difficulty,
                                settings.test_time_limit_minutes, now)
                /\ tmp' = [tmp EXCEPT ![p] =
                              [test_id |-> test_id, questions |-> questions.value,
                               llm_calls |-> tmp[p].llm_calls]]
                /\ pc' = [pc EXCEPT ![p] = "generate_respond"]
                /\ UNCHANGED <<arg, response>>
    /\ UNCHANGED <<settings, chat_sessions, now>>

\* generate_test after the insert: build the public questions and the
\* response.
GenerateTestRespond(p) ==
    /\ pc[p] = "generate_respond"
    /\ LET public_questions == prepare_public_questions(tmp[p].questions) IN
       response' = [response EXCEPT ![p] =
            IF public_questions.ok
            THEN TestResponse(MCQGenerationResponse(tmp[p].test_id, arg[p].topic,
                     public_questions.value, Len(tmp[p].questions),
                     settings.test_time_limit_minutes, now))
            ELSE ErrorResponse(public_questions.error)]
    /\ pc' = [pc EXCEPT ![p] = "idle"]
    /\ tmp' = [tmp EXCEPT ![p] = NoTmp]
    /\ arg' = [arg EXCEPT ![p] = NoArg]
    /\ UNCHANGED <<settings, chat_sessions, store, now, llm>>

\* A submit request arrives.  Its body is parsed into a TestSubmission; when
\* a validator raises, the request is answered with the validation error and
\* the handler never runs.  Else submit_test is called with the submission
\* and awaits get_test_session.
SubmitTestCall(p, submission) ==
    /\ pc[p] = "idle"
    /\ IF ~TestSubmissionValid(submission)
       THEN /\ response' = [response EXCEPT ![p] =
                    ErrorResponse(<<"selected_answer must be A, B, C, or D">>)]
            /\ UNCHANGED <<arg, pc>>
       ELSE /\ arg' = [arg EXCEPT ![p] = submission]
            /\ pc' = [pc EXCEPT ![p] = "submit_read"]
            /\ response' = [response EXCEPT ![p] = NoResponse]
    /\ UNCHANGED <<settings, chat_sessions, store, now, llm, tmp>>

\* submit_test from the read to the await of the write: get_test_session,
\* the status checks, the evaluation of the answers.
SubmitTestRead(p) ==
    /\ pc[p] = "submit_read"
    /\ LET test_session == get_test_session(store, arg[p].test_id)
           error == submit_test_check(test_session)
       IN  IF error # <<>>
           THEN /\ response' = [response EXCEPT ![p] = ErrorResponse(error)]
                /\ pc' = [pc EXCEPT ![p] = "idle"]
                /\ arg' = [arg EXCEPT ![p] = NoArg]
                /\ UNCHANGED tmp
           ELSE /\ tmp' = [tmp EXCEPT ![p] =
                      [result |-> evaluate_test(test_session[1].questions,
                                      arg[p].answers, test_session[1].topic, now)]]
                /\ pc' = [pc EXCEPT ![p] = "submit_write"]
                /\ UNCHANGED <<arg, response>>
    /\ UNCHANGED <<settings, chat_sessions, store, now, llm>>

\* submit_test from the write on: submit_test_answers, then return the result.
SubmitTestWrite(p) ==
    /\ pc[p] = "submit_write"
    /\ store' = submit_test_answers(store, arg[p].test_id, arg[p].answers,
                                    tmp[p].result, now)
    /\ response' = [response EXCEPT ![p] = ResultResponse(tmp[p].result)]
    /\ pc' = [pc EXCEPT ![p] = "idle"]
    /\ tmp' = [tmp EXCEPT ![p] = NoTmp]
    /\ arg' = [arg EXCEPT ![p] = NoArg]
    /\ UNCHANGED <<settings, chat_sessions, now, llm>>

\* get_test_details: one read, then the public view of the session.
GetTestDetails(p, test_id) ==
    /\ pc[p] = "idle"
    /\ LET test_session == get_test_session(store, test_id) IN
       response' = [response EXCEPT ![p] =
          IF test_session = None THEN NotFoundResponse
          ELSE LET public_questions ==
                       prepare_public_questions(test_session[1].questions)
               IN  IF public_questions.ok
                   THEN TestResponse(MCQGenerationResponse(
                            test_session[1].test_id, test_session[1].topic,
                            public_questions.value, Len(test_session[1].questions),
                            test_session[1].time_limit_minutes,
                            test_session[1].created_at))
                   ELSE ErrorResponse(public_questions.error)]
    /\ UNCHANGED <<settings, chat_sessions, store, now, pc, llm, arg, tmp>>

\* get_test_result: one read, then the stored result or not-found.
GetTestResult(p, test_id) ==
    /\ pc[p] = "idle"
    /\ LET result == get_test_result(store, test_id) IN
       response' = [response EXCEPT ![p] =
          IF result = None THEN NotFoundResponse ELSE ResultResponse(result[1])]
    /\ UNCHANGED <<settings, chat_sessions, store, now, pc, llm, arg, tmp>>

\* get_test_status up to its second await: get_test_details; not-found, the
\* error of the call, or on to get_test_result.
GetTestStatusCall(p, test_id) ==
    /\ pc[p] = "idle"
    /\ LET test_details == get_test_details(store, test_id) IN
       IF ~test_details.ok
       THEN /\ response' = [response EXCEPT ![p] =
                    ErrorResponse(<<"Failed to get test status">> \o test_details.error)]
            /\ UNCHANGED <<pc, arg, tmp>>
       ELSE IF test_details.value = None
       THEN /\ response' = [response EXCEPT ![p] = NotFoundResponse]
            /\ UNCHANGED <<pc, arg, tmp>>
       ELSE /\ arg' = [arg EXCEPT ![p] = [test_id |-> test_id]]
            /\ tmp' = [tmp EXCEPT ![p] = [test_details |-> test_details.value[1]]]
            /\ pc' = [pc EXCEPT ![p] = "status_result"]
            /\ response' = [response EXCEPT ![p] = NoResponse]
    /\ UNCHANGED <<settings, chat_sessions, store, now, llm>>

\* get_test_status from get_test_result on: "completed" when a result is
\* stored, else "in_progress".
GetTestStatusRespond(p) ==
    /\ pc[p] = "status_result"
    /\ LET result == get_test_result(store, arg[p].test_id) IN
       response' = [response EXCEPT ![p] =
           StatusResponse(arg[p].test_id, tmp[p].test_details,
                          IF result # None THEN "completed" ELSE "in_progress")]
    /\ pc' = [pc EXCEPT ![p] = "idle"]
    /\ tmp' = [tmp EXCEPT ![p] = NoTmp]
    /\ arg' = [arg EXCEPT ![p] = NoArg]
    /\ UNCHANGED <<settings, chat_sessions, store, now, llm>>

\* mark_test_expired, called on an id.
MarkTestExpired(test_id) ==
    /\ store' = mark_test_expired(store, test_id)
    /\ UNCHANGED <<settings, chat_sessions, now, pc, llm, arg, tmp, response>>

\* Time passes.
Tick ==
    /\ now < MaxTime
    /\ now' = now + 1
    /\ UNCHANGED <<settings, chat_sessions, store, pc, llm, arg, tmp, response>>

(***************************************************************************)
(* Spec: the life of test sessions under concurrent requests.  The         *)
(* settings are the defaults; the LLM answers a plain JSON array of        *)
(* well-formed elements, something that is not JSON, or fails.             *)
(***************************************************************************)
Init ==
    /\ settings = [max_mcq_count |-> max_mcq_count,
                   test_time_limit_minutes |-> test_time_limit_minutes]
    /\ store = <<>>
    /\ chat_sessions = <<>>
    /\ now = 0
    /\ pc = [p \in Procs |-> "idle"]
    /\ llm = [p \in Procs |-> NoCompletion]
    /\ arg = [p \in Procs |-> NoArg]
    /\ tmp = [p \in Procs |-> NoTmp]
    /\ response = [p \in Procs |-> NoResponse]

SessionRequests == {r \in MCQGenerationRequests : r.difficulty = "medium"}
SessionCompletions ==
    {ChatFailure, <<NotJson>>}
    \cup {<<JsonArray(a)>> : a \in SeqUpTo(GoodDrafts, MaxLen)}

Next ==
    \/ \E p \in Procs :
            pc[p] = "idle" /\ \E request \in SessionRequests : GenerateTestCall(p, request)
    \/ \E p \in Procs :
            /\ pc[p] = "generate_llm"
            /\ \E completion \in SessionCompletions : ChatCompletion(p, completion)
    \/ \E p \in Procs : GenerateTestCreate(p)
    \/ \E p \in Procs : GenerateTestRespond(p)
    \/ \E p \in Procs :
            pc[p] = "idle" /\ \E submission \in TestSubmissions : SubmitTestCall(p, submission)
    \/ \E p \in Procs : SubmitTestRead(p)
    \/ \E p \in Procs : SubmitTestWrite(p)
    \/ \E p \in Procs, test_id \in RequestIds : GetTestDetails(p, test_id)
    \/ \E p \in Procs, test_id \in RequestIds : GetTestResult(p, test_id)
    \/ \E p \in Procs, test_id \in RequestIds : GetTestStatusCall(p, test_id)
    \/ \E p \in Procs : GetTestStatusRespond(p)
    \/ \E test_id \in RequestIds : MarkTestExpired(test_id)
    \/ Tick

Spec == Init /\ [][Next]_vars

(***************************************************************************)
(* SpecSeq: the same requests served one at a time: a request starts only  *)
(* when no other is in flight, and nothing else touches the store while it *)
(* runs.                                                                   *)
(***************************************************************************)
OthersIdle(p) == \A q \in Procs \ {p} : pc[q] = "idle"
AllIdle == \A q \in Procs : pc[q] = "idle"

NextSeq ==
    \/ \E p \in Procs :
            /\ OthersIdle(p) /\ pc[p] = "idle"
            /\ \E request \in SessionRequests : GenerateTestCall(p, request)
    \/ \E p \in Procs :
            /\ OthersIdle(p) /\ pc[p] = "generate_llm"
            /\ \E completion \in SessionCompletions : ChatCompletion(p, completion)
    \/ \E p \in Procs : OthersIdle(p) /\ GenerateTestCreate(p)
    \/ \E p \in Procs : OthersIdle(p) /\ GenerateTestRespond(p)
    \/ \E p \in Procs :
            /\ OthersIdle(p) /\ pc[p] = "idle"
            /\ \E submission \in TestSubmissions : SubmitTestCall(p, submission)
    \/ \E p \in Procs : OthersIdle(p) /\ SubmitTestRead(p)
    \/ \E p \in Procs : OthersIdle(p) /\ SubmitTestWrite(p)
    \/ \E p \in Procs, test_id \in RequestIds :
            OthersIdle(p) /\ GetTestDetails(p, test_id)
    \/ \E p \in Procs, test_id \in RequestIds :
            OthersIdle(p) /\ GetTestResult(p, test_id)
    \/ \E p \in Procs, test_id \in RequestIds :
            OthersIdle(p) /\ GetTestStatusCall(p, test_id)
    \/ \E p \in Procs : OthersIdle(p) /\ GetTestStatusRespond(p)
    \/ \E test_id \in RequestIds : AllIdle /\ MarkTestExpired(test_id)
    \/ Tick

SpecSeq == Init /\ [][NextSeq]_vars

(***************************************************************************)
(* SpecGen: the generation pipeline alone, over every configured maximum,  *)
(* every request and every completion text of the model; the requests      *)
(* arrive at one slot, and the clock stands still.                         *)
(***************************************************************************)
GenProcs == {"r1"}

InitGen ==
    /\ settings \in [max_mcq_count : ConfiguredMaxCounts,
                     test_time_limit_minutes : {test_time_limit_minutes}]
    /\ store = <<>>
    /\ chat_sessions = <<>>
    /\ now = 0
    /\ pc = [p \in Procs |-> "idle"]
    /\ llm = [p \in Procs |-> NoCompletion]
    /\ arg = [p \in Procs |-> NoArg]
    /\ tmp = [p \in Procs |-> NoTmp]
    /\ response = [p \in Procs |-> NoResponse]

NextGen ==
    \/ \E p \in GenProcs :
            /\ pc[p] = "idle"
            /\ \E request \in MCQGenerationRequests : GenerateTestCall(p, request)
    \/ \E p \in GenProcs :
            /\ pc[p] = "generate_llm"
            /\ \E completion \in Completions : ChatCompletion(p, completion)
    \/ \E p \in GenProcs : GenerateTestCreate(p)
    \/ \E p \in GenProcs : GenerateTestRespond(p)

SpecGen == InitGen /\ [][NextGen]_vars

(***************************************************************************)
(* SpecEval: the scoring of a submission.  A session generated from an     *)
(* array of well-formed elements is in the store; one slot submits to it,  *)
(* with answers in any order, repeated, for ids the session does not have, *)
(* and with selected answers outside A..D, and submits to ids that name no *)
(* session.  Submissions arrive while the session is in_progress.          *)
(***************************************************************************)
EvalProcs == {"r1"}
EvalTestId == generate_id(<<>>)
InvalidAnswers == {"E", ""}
EvalAnswerSubmissions ==
    {AnswerSubmission(QuestionId(i), a) :
        i \in 0..MaxLen, a \in SelectedAnswers \cup InvalidAnswers}
EvalSubmissions ==
    [test_id : RequestIds, answers : SeqUpTo(EvalAnswerSubmissions, MaxEvalAnswers)]

\* The sessions generate_test creates from the arrays of well-formed elements.
EvalSessions ==
    {create_test_session(<<>>, EvalTestId, "Photosynthesis",
         generate_mcqs(<<JsonArray(a)>>, "medium").value, "medium",
         test_time_limit_minutes, 0) : a \in GoodArrays}

InitEval ==
    /\ settings = [max_mcq_count |-> max_mcq_count,
                   test_time_limit_minutes |-> test_time_limit_minutes]
    /\ store \in EvalSessions
    /\ chat_sessions = <<>>
    /\ now = 0
    /\ pc = [p \in Procs |-> "idle"]
    /\ llm = [p \in Procs |-> NoCompletion]
    /\ arg = [p \in Procs |-> NoArg]
    /\ tmp = [p \in Procs |-> NoTmp]
    /\ response = [p \in Procs |-> NoResponse]

NextEval ==
    \/ \E p \in EvalProcs :
            /\ pc[p] = "idle"
            /\ store[EvalTestId].status = IN_PROGRESS
            /\ \E submission \in EvalSubmissions : SubmitTestCall(p, submission)
    \/ \E p \in EvalProcs : SubmitTestRead(p)
    \/ \E p \in EvalProcs : SubmitTestWrite(p)

SpecEval == InitEval /\ [][NextEval]_vars

(***************************************************************************)
(* SpecScore: calculate_score_percentage on its own, called with every     *)
(* pair of counts of the model (correct above total included).             *)
(***************************************************************************)
ScoreProcs == {"r1"}
ScoreCounts == 0..MaxScoreTotal

\* One call of calculate_score_percentage(correct, total) and its return.
CalculateScorePercentage(p, correct, total) ==
    /\ pc[p] = "idle"
    /\ arg' = [arg EXCEPT ![p] = [correct |-> correct, total |-> total]]
    /\ response' = [response EXCEPT ![p] =
            ScoreResponse(calculate_score_percentage(correct, total))]
    /\ UNCHANGED <<settings, chat_sessions, store, now, pc, llm, tmp>>

NextScore ==
    \E p \in ScoreProcs, correct \in ScoreCounts, total \in ScoreCounts :
        CalculateScorePercentage(p, correct, total)

SpecScore == Init /\ [][NextScore]_vars

(***************************************************************************)
(* The chat: its schemas, the chat_sessions collection, LLMService's       *)
(* suggestion generator, ChatController and the chat routes.  A message    *)
(* text is a sequence of characters.  A list of suggestions is the JSON    *)
(* array json.loads gives; an element that is a string is JsonStr(s).      *)
(***************************************************************************)
ChatMessage(role, content, timestamp) == [role |-> role, content |-> content, timestamp |-> timestamp]
ChatRequest(message, session_id) == [message |-> message, session_id |-> session_id]
ChatSessionDB(session_id, messages, created_at, updated_at) == [session_id |-> session_id, messages |-> messages, created_at |-> created_at, updated_at |-> updated_at]

JsonStr(s) == [str |-> s]
IsJsonStr(e) == DOMAIN e = {"str"}

\* create_chat_session: insert a session that has no messages.
create_chat_session(cs, session_id, t) ==
    [i \in DOMAIN cs \cup {session_id} |->
        IF i = session_id THEN ChatSessionDB(session_id, <<>>, t, t) ELSE cs[i]]

\* get_chat_session: the session, or None.
get_chat_session(cs, session_id) ==
    IF session_id \in DOMAIN cs THEN Some(cs[session_id]) ELSE None

\* add_message_to_session: push the message and set updated_at, in one
\* update; nothing happens when no session has the id.
add_message_to_session(cs, session_id, message, t) ==
    IF session_id \in DOMAIN cs
    THEN [cs EXCEPT ![session_id] =
            [@ EXCEPT !.messages = Append(@, message), !.updated_at = t]]
    ELSE cs

\* get_session_messages: the messages of the session, [] when there is none.
get_session_messages(cs, session_id) ==
    LET session == get_chat_session(cs, session_id) IN
    IF session # None THEN session[1].messages ELSE <<>>

\* str.lower(), character by character.
UpperCase == <<"A", "B", "C", "D", "E", "F", "G", "H", "I", "J", "K", "L", "M",
               "N", "O", "P", "Q", "R", "S", "T", "U", "V", "W", "X", "Y", "Z">>
LowerCase == <<"a", "b", "c", "d", "e", "f", "g", "h", "i", "j", "k", "l", "m",
               "n", "o", "p", "q", "r", "s", "t", "u", "v", "w", "x", "y", "z">>
lower_char(c) ==
    IF \E i \in DOMAIN UpperCase : UpperCase[i] = c
    THEN LowerCase[CHOOSE i \in DOMAIN UpperCase : UpperCase[i] = c]
    ELSE c
lower(text) == [i \in DOMAIN text |-> lower_char(text[i])]

\* keyword in text: the keyword is a substring of the text.
contains(text, keyword) ==
    \E i \in 1..(Len(text) - Len(keyword) + 1) :
        SubSeq(text, i, i + Len(keyword) - 1) = keyword

\* The keywords of _generate_suggestions.
SuggestionKeywords ==
    {<<"e", "x", "p", "l", "a", "i", "n">>,
     <<"w", "h", "a", "t", " ", "i", "s">>,
     <<"h", "o", "w", " ", "d", "o", "e", "s">>,
     <<"t", "e", "l", "l", " ", "m", "e", " ", "a", "b", "o", "u", "t">>,
     <<"l", "e", "a", "r", "n">>,
     <<"u", "n", "d", "e", "r", "s", "t", "a", "n", "d">>}
about_learnable_topic(user_message) ==
    \E keyword \in SuggestionKeywords : contains(lower(user_message), keyword)

\* _default_suggestions of the controller.
default_suggestions ==
    JsonArray(<<JsonStr("Generate a quiz on this topic"),
                JsonStr("Explain in more detail"),
                JsonStr("Give me some examples")>>)

\* The list generate_chat_suggestions returns from its except branch.
fallback_suggestions ==
    JsonArray(<<JsonStr("Generate a quiz on this topic"),
                JsonStr("Ask me more questions"),
                JsonStr("Explain in simpler terms")>>)

\* suggestions[:3] on what json.loads returned: the first three items of a
\* list, a string again for a string, TypeError for a dict.
first_three(value) ==
    IF value.t = "array"
    THEN Ok(JsonArray(SubSeq(value.items, 1, Min(3, Len(value.items)))))
    ELSE IF value.t = "string" THEN Ok(value)
    ELSE Err(<<"TypeError">>)

\* generate_chat_suggestions, given what chat_completion did: every
\* exception of the try block is answered with the list of the except branch.
generate_chat_suggestions(completion) ==
    LET outcome ==
            IF completion = ChatFailure THEN Err(<<"Failed to get LLM response">>)
            ELSE LET r == remove_code_block(completion) IN
                 IF ~json_loads_ok(r) THEN Err(<<"JSONDecodeError">>)
                 ELSE first_three(r[1])
    IN  IF outcome.ok THEN outcome.value ELSE fallback_suggestions

\* ChatResponse(message, session_id, suggestions): suggestions must be a
\* list whose items are strings.
ChatResponse(message, session_id, suggestions) ==
    IF suggestions.t = "array" /\ \A i \in DOMAIN suggestions.items : IsJsonStr(suggestions.items[i])
    THEN Ok([message |-> message, session_id |-> session_id, suggestions |-> suggestions])
    ELSE Err(<<"validation error for ChatResponse">>)

\* _build_llm_messages: the system message, then role and content of every
\* message of the history.
system_message == [role |-> "system", content |-> "You are MCQ Genie"]
build_llm_messages(history) ==
    <<system_message>> \o
    [i \in DOMAIN history |-> [role |-> history[i].role, content |-> history[i].content]]

ChatTurnResponse(r) == [kind |-> "chat", body |-> r]
SessionCreatedResponse(session_id) == [kind |-> "session_created", body |-> [session_id |-> session_id, message |-> "New chat session created"]]
HistoryResponse(messages) == [kind |-> "history", body |-> messages]
SessionExistsResponse(session_id, messages) == [kind |-> "session_exists", body |-> [session_id |-> session_id, exists |-> Len(messages) > 0, message_count |-> Len(messages)]]

\* The turns that have not yet stored their user message, and those that
\* may still insert a session.
RECURSIVE CountUserMessages(_)
CountUserMessages(messages) ==
    IF messages = <<>> THEN 0
    ELSE (IF Head(messages).role = "user" THEN 1 ELSE 0) + CountUserMessages(Tail(messages))
RECURSIVE SumUserMessages(_, _)
SumUserMessages(cs, ids) ==
    IF ids = {} THEN 0
    ELSE LET i == CHOOSE x \in ids : TRUE
         IN  CountUserMessages(cs[i].messages) + SumUserMessages(cs, ids \ {i})
StartingTurns == {p \in Procs : pc[p] \in {"chat_get", "chat_create", "chat_add_user"}}
ChatTurns == SumUserMessages(chat_sessions, DOMAIN chat_sessions) + Cardinality(StartingTurns)
PendingSessions == {p \in Procs : pc[p] \in {"chat_get", "chat_create"}}
SessionRoom == Cardinality(DOMAIN chat_sessions) + Cardinality(PendingSessions) < MaxChatSessions

\* process_chat_message up to its first await: a request without a
\* session_id has a session created for it.
ChatCall(p, request) ==
    /\ pc[p] = "idle"
    /\ ChatTurns < MaxChatTurns
    /\ (request.session_id = None \/ request.session_id[1] \notin DOMAIN chat_sessions)
            => SessionRoom
    /\ arg' = [arg EXCEPT ![p] = request]
    /\ IF request.session_id = None
       THEN LET session_id == generate_id(chat_sessions) IN
            /\ chat_sessions' = create_chat_session(chat_sessions, session_id, now)
            /\ tmp' = [tmp EXCEPT ![p] = [session_id |-> session_id]]
       ELSE /\ tmp' = [tmp EXCEPT ![p] = [session_id |-> request.session_id[1]]]
            /\ UNCHANGED chat_sessions
    /\ pc' = [pc EXCEPT ![p] = "chat_get"]
    /\ response' = [response EXCEPT ![p] = NoResponse]
    /\ UNCHANGED <<settings, store, now, llm>>

\* get_chat_session: verify that the session exists.
ChatGetSession(p) ==
    /\ pc[p] = "chat_get"
    /\ pc' = [pc EXCEPT ![p] =
            IF get_chat_session(chat_sessions, tmp[p].session_id) = None
            THEN "chat_create" ELSE "chat_add_user"]
    /\ UNCHANGED <<settings, chat_sessions, store, now, llm, arg, tmp, response>>

\* The session was not found: a new one is created, under a new id.
ChatCreateSession(p) ==
    /\ pc[p] = "chat_create"
    /\ LET session_id == generate_id(chat_sessions) IN
        /\ chat_sessions' = create_chat_session(chat_sessions, session_id, now)
        /\ tmp' = [tmp EXCEPT ![p] = [session_id |-> session_id]]
    /\ pc' = [pc EXCEPT ![p] = "chat_add_user"]
    /\ UNCHANGED <<settings, store, now, llm, arg, response>>

\* The user message is saved.
ChatAddUser(p) ==
    /\ pc[p] = "chat_add_user"
    /\ chat_sessions' = add_message_to_session(chat_sessions, tmp[p].session_id,
                            ChatMessage("user", arg[p].message, now), now)
    /\ pc' = [pc EXCEPT ![p] = "chat_history"]
    /\ UNCHANGED <<settings, store, now, llm, arg, tmp, response>>

\* The history is read, and the messages for the LLM are built from it and
\* sent.
ChatHistory(p) ==
    /\ pc[p] = "chat_history"
    /\ LET history == get_session_messages(chat_sessions, tmp[p].session_id) IN
       tmp' = [tmp EXCEPT ![p] =
            [session_id |-> tmp[p].session_id,
             llm_messages |-> build_llm_messages(history)]]
    /\ pc' = [pc EXCEPT ![p] = "chat_llm"]
    /\ UNCHANGED <<settings, chat_sessions, store, now, llm, arg, response>>

\* chat_completion answers with the assistant's text.
ChatReply(p, content) ==
    /\ pc[p] = "chat_llm"
    /\ tmp' = [tmp EXCEPT ![p] =
            [session_id |-> tmp[p].session_id, assistant_content |-> content]]
    /\ pc' = [pc EXCEPT ![p] = "chat_add_assistant"]
    /\ UNCHANGED <<settings, chat_sessions, store, now, llm, arg, response>>

\* chat_completion raises: send_message answers 500.
ChatReplyFails(p) ==
    /\ pc[p] = "chat_llm"
    /\ response' = [response EXCEPT ![p] =
            ErrorResponse(<<"Failed to process message", "Failed to get LLM response">>)]
    /\ pc' = [pc EXCEPT ![p] = "idle"]
    /\ tmp' = [tmp EXCEPT ![p] = NoTmp]
    /\ arg' = [arg EXCEPT ![p] = NoArg]
    /\ UNCHANGED <<settings, chat_sessions, store, now, llm>>

\* The assistant message is saved.  _generate_suggestions then either asks
\* the LLM (a keyword is in the user's message) or returns the controller's
\* default suggestions, with which the turn is answered.
ChatAddAssistant(p) ==
    /\ pc[p] = "chat_add_assistant"
    /\ chat_sessions' = add_message_to_session(chat_sessions, tmp[p].session_id,
                            ChatMessage("assistant", tmp[p].assistant_content, now), now)
    /\ IF about_learnable_topic(arg[p].message)
       THEN /\ pc' = [pc EXCEPT ![p] = "chat_suggest"]
            /\ UNCHANGED <<arg, tmp, response>>
       ELSE /\ response' = [response EXCEPT ![p] =
                    ChatTurnResponse(ChatResponse(tmp[p].assistant_content,
                        tmp[p].session_id, default_suggestions).value)]
            /\ pc' = [pc EXCEPT ![p] = "idle"]
            /\ tmp' = [tmp EXCEPT ![p] = NoTmp]
            /\ arg' = [arg EXCEPT ![p] = NoArg]
    /\ UNCHANGED <<settings, store, now, llm>>

\* generate_chat_suggestions receives the completion (kept in llm), and
\* process_chat_message builds its ChatResponse; when that raises,
\* send_message answers 500.
ChatSuggest(p, completion) ==
    /\ pc[p] = "chat_suggest"
    /\ llm' = [llm EXCEPT ![p] = completion]
    /\ LET chat_response == ChatResponse(tmp[p].assistant_content, tmp[p].session_id,
                                generate_chat_suggestions(completion))
       IN  response' = [response EXCEPT ![p] =
                IF chat_response.ok THEN ChatTurnResponse(chat_response.value)
                ELSE ErrorResponse(<<"Failed to process message">> \o chat_response.error)]
    /\ pc' = [pc EXCEPT ![p] = "idle"]
    /\ tmp' = [tmp EXCEPT ![p] = NoTmp]
    /\ arg' = [arg EXCEPT ![p] = NoArg]
    /\ UNCHANGED <<settings, chat_sessions, store, now>>

\* POST /session: create_new_session.
CreateNewSession(p) ==
    /\ pc[p] = "idle"
    /\ SessionRoom
    /\ LET session_id == generate_id(chat_sessions) IN
        /\ chat_sessions' = create_chat_session(chat_sessions, session_id, now)
        /\ response' = [response EXCEPT ![p] = SessionCreatedResponse(session_id)]
    /\ UNCHANGED <<settings, store, now, pc, llm, arg, tmp>>

\* GET /history/{session_id}: 404 when the controller returns no message.
GetChatHistory(p, session_id) ==
    /\ pc[p] = "idle"
    /\ arg' = [arg EXCEPT ![p] = [session_id |-> session_id]]
    /\ LET messages == get_session_messages(chat_sessions, session_id) IN
       response' = [response EXCEPT ![p] =
            IF messages = <<>> THEN NotFoundResponse ELSE HistoryResponse(messages)]
    /\ UNCHANGED <<settings, chat_sessions, store, now, pc, llm, tmp>>

\* GET /session/{session_id}/exists.
CheckSessionExists(p, session_id) ==
    /\ pc[p] = "idle"
    /\ arg' = [arg EXCEPT ![p] = [session_id |-> session_id]]
    /\ response' = [response EXCEPT ![p] =
            SessionExistsResponse(session_id,
                get_session_messages(chat_sessions, session_id))]
    /\ UNCHANGED <<settings, chat_sessions, store, now, pc, llm, tmp>>

(***************************************************************************)
(* SpecChat: chat turns under concurrent requests, with session creation   *)
(* and the two session queries arriving between their steps.  A turn names *)
(* no session, a stored one or one that is not stored; the suggestion      *)
(* generator's completion is any of: a failure, no JSON, a JSON object, a  *)
(* JSON string, an array of strings (bare or in a code block), an array of *)
(* objects.  The clock stands still.                                       *)
(***************************************************************************)
ChatTexts == {<<"L", "e", "a", "r", "n">>, <<"h", "i">>}
ChatSessionIds == 0..MaxChatSessions
ChatRequests ==
    {ChatRequest(m, s) : m \in ChatTexts,
                         s \in {None} \cup {Some(i) : i \in ChatSessionIds}}
AssistantTexts == {"an answer", "another answer"}
\* The slot at which sessions are created and queried; turns arrive at both.
SessionProcs == {"r1"}
FourSuggestions ==
    <<JsonStr("Take a quiz"), JsonStr("Learn more"), JsonStr("Practice"), JsonStr("Review")>>
SuggestionCompletions ==
    {ChatFailure, <<NotJson>>, <<JsonObject>>, <<JsonString>>,
     <<JsonArray(FourSuggestions)>>,
     <<FENCE, JSONTAG, WS, JsonArray(SubSeq(FourSuggestions, 1, 2)), WS, FENCE>>,
     <<JsonArray(<<Draft1>>)>>}

NextChat ==
    \/ \E p \in Procs :
            pc[p] = "idle" /\ \E request \in ChatRequests : ChatCall(p, request)
    \/ \E p \in Procs : ChatGetSession(p)
    \/ \E p \in Procs : ChatCreateSession(p)
    \/ \E p \in Procs : ChatAddUser(p)
    \/ \E p \in Procs : ChatHistory(p)
    \/ \E p \in Procs :
            pc[p] = "chat_llm" /\ \E content \in AssistantTexts : ChatReply(p, content)
    \/ \E p \in Procs : ChatReplyFails(p)
    \/ \E p \in Procs : ChatAddAssistant(p)
    \/ \E p \in Procs :
            /\ pc[p] = "chat_suggest"
            /\ \E completion \in SuggestionCompletions : ChatSuggest(p, completion)
    \/ \E p \in SessionProcs : CreateNewSession(p)
    \/ \E p \in SessionProcs, session_id \in ChatSessionIds : GetChatHistory(p, session_id)
    \/ \E p \in SessionProcs, session_id \in ChatSessionIds : CheckSessionExists(p, session_id)

SpecChat == Init /\ [][NextChat]_vars

(***************************************************************************)
(* Properties.                                                             *)
(***************************************************************************)

\* The steps of a slot, told by its position.
SubmitReadStep(p) == pc[p] = "submit_read" /\ pc'[p] # "submit_read"
SubmitWriteStep(p) == pc[p] = "submit_write" /\ pc'[p] = "idle"
GenerateCreateStep(p) == pc[p] = "generate_parse" /\ pc'[p] # "generate_parse"
GenerateRespondStep(p) == pc[p] = "generate_respond" /\ pc'[p] = "idle"

StatusOf(test_id) == store[test_id].status

\* C1: of two submit_test requests running concurrently on one in_progress
\* session exactly one returns a TestResult; the one whose write comes
\* second is rejected as already submitted and leaves the stored result (the
\* first submission's) as it is.
C1_ConcurrentSubmitOnce ==
    [][\A p \in Procs :
        (/\ SubmitWriteStep(p)
         /\ arg[p].test_id \in DOMAIN store
         /\ StatusOf(arg[p].test_id) = COMPLETED)
        => /\ response'[p] = ErrorResponse(<<"Test already submitted">>)
           /\ store'[arg[p].test_id].result = store[arg[p].test_id].result]_vars

\* C2: with requests served one at a time, a submit_test for a session that
\* is completed is rejected with "Test already submitted" and the store is
\* left as it was; and every write that makes a session completed finds it
\* in_progress, so a session becomes completed once.
C2_ResubmitRejected ==
    [][/\ \A p \in Procs :
            (/\ SubmitReadStep(p)
             /\ arg[p].test_id \in DOMAIN store
             /\ StatusOf(arg[p].test_id) = COMPLETED)
            => /\ response'[p] = ErrorResponse(<<"Test already submitted">>)
               /\ pc'[p] = "idle"
               /\ store' = store
       /\ \A test_id \in DOMAIN store :
            (store'[test_id] # store[test_id] /\ store'[test_id].status = COMPLETED)
            => StatusOf(test_id) = IN_PROGRESS]_vars

C2_Witness ==
    \E p \in Procs, test_id \in DOMAIN store :
        /\ response[p] = ErrorResponse(<<"Test already submitted">>)
        /\ StatusOf(test_id) = COMPLETED
        /\ store[test_id].result # None

\* C3: a submit_test for a session that is expired is rejected with "Test
\* has expired": no result is produced, no write is pending, and the stored
\* session is not changed.
C3_ExpiredRejected ==
    [][\A p \in Procs :
          (/\ SubmitReadStep(p)
           /\ arg[p].test_id \in DOMAIN store
           /\ StatusOf(arg[p].test_id) = EXPIRED)
          => /\ response'[p] = ErrorResponse(<<"Test has expired">>)
             /\ pc'[p] = "idle"
             /\ tmp'[p] = tmp[p]
             /\ store' = store]_vars

C3_Witness ==
    \E p \in Procs, test_id \in DOMAIN store :
        /\ response[p] = ErrorResponse(<<"Test has expired">>)
        /\ StatusOf(test_id) = EXPIRED

\* C4: once the status of a session is completed or expired, no operation
\* changes it.
C4_TerminalStatus ==
    [][\A test_id \in DOMAIN store :
          StatusOf(test_id) \in {COMPLETED, EXPIRED}
          => store'[test_id].status = StatusOf(test_id)]_vars

\* C5: once a result is stored on a session, the stored result is the same
\* in every later state.
C5_ResultImmutable ==
    [][\A test_id \in DOMAIN store :
          store[test_id].result # None
          => store'[test_id].result = store[test_id].result]_vars

\* The public view of a stored question: the answer blanked, no
\* explanation, the rest as stored.
IsPublicViewOf(pub, q) ==
    /\ pub.correct_answer = ""
    /\ pub.explanation = None
    /\ pub.question_id = q.question_id
    /\ pub.question_text = q.question_text
    /\ pub.options = q.options
    /\ pub.difficulty = q.difficulty

ReturnsPublicView(r, questions) ==
    /\ r.kind = "test"
    /\ Len(r.body.questions) = Len(questions)
    /\ \A i \in 1..Len(questions) : IsPublicViewOf(r.body.questions[i], questions[i])

\* C6: generate_test and get_test_details return, for a session of any
\* status, its questions with correct_answer "" and no explanation and the
\* other fields as stored, while the stored questions keep their answers.
C6_PublicView ==
    [][\A p \in Procs :
        /\ GenerateRespondStep(p)
           => /\ ReturnsPublicView(response'[p], store[tmp[p].test_id].questions)
              /\ store' = store
        /\ \A test_id \in DOMAIN store :
              GetTestDetails(p, test_id)
              => /\ ReturnsPublicView(response'[p], store[test_id].questions)
                 /\ store' = store]_vars

\* Exactly 4 options with the ids A, B, C, D, and a correct answer among them.
WellFormedQuestion(q) ==
    /\ Len(q.options) = 4
    /\ {q.options[i].option_id : i \in 1..Len(q.options)} = {"A", "B", "C", "D"}
    /\ q.correct_answer \in {"A", "B", "C", "D"}

\* C7: when generate_test succeeds, the questions it returns, the questions
\* it persisted and total_questions all number the clamped requested count,
\* and every persisted question is well formed.
C7_ExactCount ==
    [][\A p \in Procs :
        (GenerateRespondStep(p) /\ response'[p].kind = "test")
        => LET n == Min(arg[p].num_questions, settings.max_mcq_count)
               stored == store[response'[p].body.test_id].questions
           IN  /\ response'[p].body.total_questions = n
               /\ Len(response'[p].body.questions) = n
               /\ Len(stored) = n
               /\ \A i \in 1..Len(stored) : WellFormedQuestion(stored[i])]_vars

\* The text left by the removal of the fences is one JSON array.
IsJsonArrayText(completion) ==
    LET r == remove_code_block(completion) IN
    Len(r) = 1 /\ r[1].t = "array"

\* C8: when the completion text, its fences removed, is not parseable JSON
\* or is not an array, generate_test ends with an error and inserts no
\* session.
C8_MalformedCompletion ==
    [][\A p \in Procs :
        (/\ GenerateCreateStep(p)
         /\ llm[p] # ChatFailure
         /\ ~IsJsonArrayText(llm[p]))
        => /\ response'[p].kind = "error"
           /\ pc'[p] = "idle"
           /\ store' = store]_vars

C8_Witness ==
    \E p \in Procs :
        /\ response[p].kind = "error"
        /\ response[p].body \in
              {<<"Failed to generate MCQs", "Failed to parse MCQ response as JSON">>,
               <<"Failed to generate MCQs", "Response is not a list">>}
        /\ store = <<>>

\* An element that lacks the question text, an option key, the
\* correct_answer, or whose correct_answer is none of A, B, C, D.
InvalidElement(mcq) ==
    \/ "question" \notin DOMAIN mcq
    \/ "options" \notin DOMAIN mcq
    \/ "correct_answer" \notin DOMAIN mcq
    \/ IF "options" \in DOMAIN mcq
       THEN \E o \in {"A", "B", "C", "D"} : o \notin DOMAIN mcq.options
       ELSE FALSE
    \/ IF "correct_answer" \in DOMAIN mcq
       THEN mcq.correct_answer \notin {"A", "B", "C", "D"}
       ELSE FALSE

HasInvalidElement(completion) ==
    /\ IsJsonArrayText(completion)
    /\ LET items == remove_code_block(completion)[1].items
       IN  \E i \in 1..Len(items) : InvalidElement(items[i])

\* C9: when an element of the parsed array is invalid, generate_mcqs fails
\* as a whole, returning no questions, and generate_test persists no session.
C9_AtomicGeneration ==
    [][\A p \in Procs :
        (GenerateCreateStep(p) /\ HasInvalidElement(llm[p]))
        => /\ ~generate_mcqs(llm[p], arg[p].difficulty).ok
           /\ generate_mcqs(llm[p], arg[p].difficulty).value = <<>>
           /\ response'[p].kind = "error"
           /\ pc'[p] = "idle"
           /\ store' = store]_vars

C9_Witness ==
    \E p \in Procs :
        /\ response[p].kind = "error"
        /\ response[p].body \in
              {<<"Failed to generate MCQs", "KeyError">>,
               <<"Failed to generate MCQs", "correct_answer must be A, B, C, or D">>}
        /\ store = <<>>

\* C10: the count passed to the LLM is the smaller of the requested count
\* and the configured maximum: it exceeds neither and equals one of them.
C10_ClampedCount ==
    \A p \in Procs :
        pc[p] = "generate_llm"
        => /\ tmp[p].num_questions <= arg[p].num_questions
           /\ tmp[p].num_questions <= settings.max_mcq_count
           /\ tmp[p].num_questions \in {arg[p].num_questions, settings.max_mcq_count}

C10_Witness ==
    \E p \in Procs :
        /\ pc[p] = "generate_llm"
        /\ arg[p].num_questions > settings.max_mcq_count
        /\ tmp[p].num_questions = settings.max_mcq_count

\* C11: when generate_mcqs parses an array of n valid drafts it returns n
\* questions in array order: the i-th has the id q_i, the text, the four
\* option texts and the correct_answer of the i-th draft, the draft's
\* explanation or "" when the draft has none, and the requested difficulty;
\* the ids are pairwise distinct.
C11_QuestionsFromDrafts ==
    [][\A p \in Procs :
        (/\ GenerateCreateStep(p)
         /\ IsJsonArrayText(llm[p])
         /\ ~HasInvalidElement(llm[p]))
        => LET drafts == remove_code_block(llm[p])[1].items
               returned == generate_mcqs(llm[p], arg[p].difficulty)
               qs == returned.value
           IN  /\ returned.ok
               /\ Len(qs) = Len(drafts)
               /\ \A i \in 1..Len(drafts) :
                     /\ qs[i].question_id = <<"q", i>>
                     /\ qs[i].question_text = drafts[i].question
                     /\ Len(qs[i].options) = 4
                     /\ \A k \in 1..4 :
                           /\ qs[i].options[k].option_id = <<"A", "B", "C", "D">>[k]
                           /\ qs[i].options[k].text =
                                  drafts[i].options[<<"A", "B", "C", "D">>[k]]
                     /\ qs[i].correct_answer = drafts[i].correct_answer
                     /\ qs[i].explanation =
                            IF "explanation" \in DOMAIN drafts[i]
                            THEN <<drafts[i].explanation>> ELSE <<"">>
                     /\ qs[i].difficulty = arg[p].difficulty
               /\ \A i, j \in 1..Len(qs) :
                     i # j => qs[i].question_id # qs[j].question_id
               /\ pc'[p] = "generate_respond"
               /\ tmp'[p].questions = qs]_vars

C11_Witness ==
    \E p \in Procs :
        /\ pc[p] = "generate_respond"
        /\ Len(tmp[p].questions) = 2
        /\ tmp[p].questions[1].explanation = <<"because">>
        /\ tmp[p].questions[2].explanation = <<"">>
        /\ tmp[p].questions[2].question_id = <<"q", 2>>
        /\ arg[p].difficulty = "easy"
        /\ tmp[p].questions[2].difficulty = "easy"

\* A slot that has evaluated a submission and not yet written it: the
\* questions and answers it evaluated, and the TestResult it got.
Evaluated(p) == pc[p] = "submit_write"
QuestionsOf(p) == store[arg[p].test_id].questions
AnswersOf(p) == arg[p].answers
ResultOf(p) == tmp[p].result

\* The positions of the answers given for a question id.
AnswersFor(answers, question_id) ==
    {j \in 1..Len(answers) : answers[j].question_id = question_id}

\* C12: _evaluate_test returns one QuestionResult per question, in the order
\* of the questions: the i-th result carries the i-th question's id and
\* correct_answer, and this holds for the answers in any other order too.
C12_ResultsInQuestionOrder ==
    \A p \in Procs :
        Evaluated(p)
        => LET qs == QuestionsOf(p)
               InOrder(results) ==
                   /\ Len(results) = Len(qs)
                   /\ \A i \in 1..Len(qs) :
                         /\ results[i].question_id = qs[i].question_id
                         /\ results[i].correct_answer = qs[i].correct_answer
           IN  /\ InOrder(ResultOf(p).results)
               /\ \A f \in Permutations(1..Len(AnswersOf(p))) :
                     InOrder(evaluate_test(qs,
                                 [k \in 1..Len(AnswersOf(p)) |-> AnswersOf(p)[f[k]]],
                                 ResultOf(p).topic, ResultOf(p).completed_at).results)

C12_Witness ==
    \E p \in Procs :
        /\ Evaluated(p)
        /\ Len(QuestionsOf(p)) = 2
        /\ Len(AnswersOf(p)) = 2
        /\ AnswersOf(p)[1].question_id = QuestionsOf(p)[2].question_id
        /\ AnswersOf(p)[2].question_id = QuestionsOf(p)[1].question_id
        /\ ResultOf(p).results[1].question_id = <<"q", 1>>

\* C13: when several answers of a submission name the same question, the
\* question is scored with the one that comes last, and the TestResult is
\* the one of the submission without the earlier ones.
C13_LastAnswerWins ==
    \A p \in Procs :
        Evaluated(p)
        => LET qs == QuestionsOf(p)
               answers == AnswersOf(p)
               IsLast(j) == \A k \in AnswersFor(answers, answers[j].question_id) : k <= j
               last_only == SelectSeq([j \in 1..Len(answers) |-> <<j, answers[j]>>],
                                      LAMBDA e : IsLast(e[1]))
           IN  /\ \A i \in 1..Len(qs) :
                     \A j \in AnswersFor(answers, qs[i].question_id) :
                         IsLast(j)
                         => /\ ResultOf(p).results[i].selected_answer =
                                   answers[j].selected_answer
                            /\ ResultOf(p).results[i].is_correct =
                                   (answers[j].selected_answer = qs[i].correct_answer)
               /\ ResultOf(p) =
                      evaluate_test(qs, [k \in 1..Len(last_only) |-> last_only[k][2]],
                                    ResultOf(p).topic, ResultOf(p).completed_at)

C13_Witness ==
    \E p \in Procs :
        /\ Evaluated(p)
        /\ Len(QuestionsOf(p)) >= 1
        /\ Len(AnswersOf(p)) = 2
        /\ AnswersOf(p)[1].question_id = QuestionsOf(p)[1].question_id
        /\ AnswersOf(p)[2].question_id = QuestionsOf(p)[1].question_id
        /\ AnswersOf(p)[1].selected_answer # QuestionsOf(p)[1].correct_answer
        /\ AnswersOf(p)[2].selected_answer = QuestionsOf(p)[1].correct_answer
        /\ ResultOf(p).results[1].is_correct

\* C14: a question no answer names gets selected_answer "Not answered" and
\* is_correct false; the answers that name no question of the session change
\* nothing: the TestResult is the one of the submission without them.
C14_UnansweredAndUnmatched ==
    \A p \in Procs :
        Evaluated(p)
        => LET qs == QuestionsOf(p)
               answers == AnswersOf(p)
               matched == SelectSeq(answers, LAMBDA a :
                              \E i \in 1..Len(qs) : qs[i].question_id = a.question_id)
           IN  /\ \A i \in 1..Len(qs) :
                     AnswersFor(answers, qs[i].question_id) = {}
                     => /\ ResultOf(p).results[i].selected_answer = "Not answered"
                        /\ ResultOf(p).results[i].is_correct = FALSE
               /\ Len(ResultOf(p).results) = Len(qs)
               /\ ResultOf(p) = evaluate_test(qs, matched, ResultOf(p).topic,
                                              ResultOf(p).completed_at)

C14_Witness ==
    \E p \in Procs :
        /\ Evaluated(p)
        /\ Len(QuestionsOf(p)) = 2
        /\ \E j \in 1..Len(AnswersOf(p)) :
              \A i \in 1..Len(QuestionsOf(p)) :
                  AnswersOf(p)[j].question_id # QuestionsOf(p)[i].question_id
        /\ ResultOf(p).results[1].selected_answer # "Not answered"
        /\ ResultOf(p).results[2].selected_answer = "Not answered"

\* C15: in every TestResult, is_correct of a result holds exactly when its
\* selected answer equals the question's correct_answer, correct_answers is
\* the number of correct results, total_questions the number of questions,
\* and wrong_answers = total_questions - correct_answers.
C15_Counts ==
    \A p \in Procs :
        Evaluated(p)
        => LET qs == QuestionsOf(p)
               r == ResultOf(p)
           IN  /\ \A i \in 1..Len(r.results) :
                     r.results[i].is_correct
                         = (r.results[i].selected_answer = qs[i].correct_answer)
               /\ r.correct_answers =
                      Cardinality({i \in 1..Len(r.results) : r.results[i].is_correct})
               /\ r.total_questions = Len(qs)
               /\ r.wrong_answers = r.total_questions - r.correct_answers
               /\ r.correct_answers + r.wrong_answers = r.total_questions
               /\ 0 <= r.correct_answers
               /\ r.correct_answers <= r.total_questions

C15_Witness ==
    \E p \in Procs :
        /\ Evaluated(p)
        /\ ResultOf(p).total_questions = 2
        /\ ResultOf(p).correct_answers = 1
        /\ ResultOf(p).wrong_answers = 1
        /\ ResultOf(p).results[2].selected_answer = "Not answered"

\* C16: calculate_score_percentage(correct, total) is 0.0 for total = 0, and
\* else the hundredth nearest to 100 * correct / total, which lies in 0..100
\* when 0 <= correct <= total; 0 of 5 is 0.0, 3 of 5 is 60.0, 2 of 3 is 66.67.
\* (Scores are in hundredths of a percent.)
C16_ScorePercentage ==
    \A p \in Procs :
        response[p].kind = "score"
        => LET correct == arg[p].correct
               total == arg[p].total
               score == response[p].body
               dist == score * total - 100 * 100 * correct
           IN  /\ total = 0 => score = 0
               /\ total # 0 => /\ 2 * dist <= total
                               /\ 2 * (0 - dist) <= total
               /\ (0 <= correct /\ correct <= total)
                      => (0 <= score /\ score <= 100 * 100)
               /\ (correct = 0 /\ total = 5) => score = 0
               /\ (correct = 3 /\ total = 5) => score = 6000
               /\ (correct = 2 /\ total = 3) => score = 6667

C16_Witness ==
    \E p \in Procs :
        /\ response[p] = ScoreResponse(6667)
        /\ arg[p] = [correct |-> 2, total |-> 3]

\* C17: two evaluations of _evaluate_test on the same questions, answers and
\* topic give the same TestResult in every field, completed_at included.
\* (Two slots that evaluated equal submissions to one session were given the
\* same questions and topic: those of a stored session never change.)
C17_EvaluationDeterministic ==
    \A p, q \in Procs :
        (/\ Evaluated(p)
         /\ Evaluated(q)
         /\ arg[p].test_id = arg[q].test_id
         /\ AnswersOf(p) = AnswersOf(q))
        => ResultOf(p) = ResultOf(q)

\* C18: a submit_test for a test_id that names no stored session ends with
\* the error "Test not found": no TestResult is produced, no write is
\* pending, and the store is left as it was.
C18_SubmitNotFound ==
    [][\A p \in Procs :
          (SubmitReadStep(p) /\ arg[p].test_id \notin DOMAIN store)
          => /\ response'[p] = ErrorResponse(<<"Test not found">>)
             /\ pc'[p] = "idle"
             /\ tmp'[p] = tmp[p]
             /\ DOMAIN store' = DOMAIN store
             /\ store' = store]_vars

C18_Witness ==
    \E p \in Procs :
        /\ response[p] = ErrorResponse(<<"Test not found">>)
        /\ pc[p] = "idle"
        /\ \E test_id \in DOMAIN store : StatusOf(test_id) = IN_PROGRESS

\* C19: get_test_result answers not-found for an id that names no session
\* and for a session without a successful submission; a successful
\* submit_test leaves stored the TestResult it returns, and from then on
\* get_test_result returns that same TestResult on every call.
C19_ResultAsReturned ==
    [][/\ \A p \in Procs, test_id \in RequestIds :
            GetTestResult(p, test_id)
            => IF test_id \in DOMAIN store /\ store[test_id].result # <<>>
               THEN response'[p] = ResultResponse(store[test_id].result[1])
               ELSE response'[p] = NotFoundResponse
       /\ \A p \in Procs :
            SubmitWriteStep(p)
            => /\ response'[p].kind = "result"
               /\ get_test_result(store', arg[p].test_id) = <<response'[p].body>>
       /\ \A test_id \in DOMAIN store :
            get_test_result(store, test_id) # <<>>
            => get_test_result(store', test_id) = get_test_result(store, test_id)]_vars

\* The selected answers a QuestionResult may report.
ReportedAnswersValid(result) ==
    \A i \in 1..Len(result.results) :
        result.results[i].selected_answer \in {"A", "B", "C", "D", "Not answered"}

\* C20: a submission with a selected_answer that is none of A, B, C, D is
\* rejected when it is parsed: submit_test and _evaluate_test run only on
\* submissions whose selected answers are all among A, B, C, D, every
\* QuestionResult produced reports one of these or "Not answered", and the
\* rejected request leaves the store as it was.
C20_SelectedAnswerValidated ==
    [][\A p \in Procs :
        /\ pc'[p] \in {"submit_read", "submit_write"}
           => \A i \in 1..Len(arg'[p].answers) :
                 arg'[p].answers[i].selected_answer \in {"A", "B", "C", "D"}
        /\ pc'[p] = "submit_write" => ReportedAnswersValid(tmp'[p].result)
        /\ response'[p].kind = "result" => ReportedAnswersValid(response'[p].body)
        /\ \A test_id \in DOMAIN store' :
              store'[test_id].result # <<>>
              => ReportedAnswersValid(store'[test_id].result[1])
        /\ (/\ response'[p] = ErrorResponse(<<"selected_answer must be A, B, C, or D">>)
            /\ response'[p] # response[p])
           => /\ pc[p] = "idle"
              /\ pc'[p] = "idle"
              /\ tmp'[p] = tmp[p]
              /\ store' = store]_vars

C20_Witness ==
    \E p \in Procs :
        /\ response[p] = ErrorResponse(<<"selected_answer must be A, B, C, or D">>)
        /\ pc[p] = "idle"
        /\ \E test_id \in DOMAIN store :
              /\ StatusOf(test_id) = IN_PROGRESS
              /\ Len(store[test_id].questions) >= 1
              /\ store[test_id].result = <<>>

\* C21: one generate_test request makes one chat-completion call at most:
\* the call is made when none was made for the request, and when the call,
\* the parsing or the validation fails the request ends with one generation
\* error, without another call.
C21_SingleLLMCall ==
    [][\A p \in Procs :
        /\ (pc[p] = "generate_llm" /\ pc'[p] # "generate_llm")
           => /\ tmp[p].llm_calls = 0
              /\ tmp'[p].llm_calls = 1
        /\ (GenerateCreateStep(p) /\ ~generate_mcqs(llm[p], arg[p].difficulty).ok)
           => /\ tmp[p].llm_calls = 1
              /\ response'[p].kind = "error"
              /\ Head(response'[p].body) = "Failed to generate MCQs"
              /\ Len(response'[p].body) = 2
              /\ pc'[p] = "idle"
        /\ GenerateRespondStep(p) => tmp[p].llm_calls = 1]_vars

C21_Witness ==
    \E p \in Procs :
        /\ pc[p] = "idle"
        /\ response[p] =
              ErrorResponse(<<"Failed to generate MCQs", "Failed to get LLM response">>)

\* C23: get_test_status reports, for every session of the store, the status
\* stored for it (in_progress, completed or expired): the request on an
\* existing session goes on to its answer, and the answer carries the stored
\* status.
C23_StatusAsStored ==
    [][\A p \in Procs :
        /\ \A test_id \in DOMAIN store :
              GetTestStatusCall(p, test_id) => pc'[p] = "status_result"
        /\ (pc[p] = "status_result" /\ pc'[p] = "idle")
           => /\ response'[p].kind = "status"
              /\ response'[p].body.status = StatusOf(arg[p].test_id)]_vars

Present(field) == field # <<>>

\* C25: a session with status in_progress has answers, result and
\* submitted_at absent, a session with status completed has the three
\* present; a step that changes one of the three is the write of a
\* submit_test for that session, which sets them and the status together.
C25_SubmissionFields ==
    [][/\ \A test_id \in DOMAIN store' :
            LET session == store'[test_id] IN
            /\ session.status = "in_progress"
               => /\ ~Present(session.answers)
                  /\ ~Present(session.result)
                  /\ ~Present(session.submitted_at)
            /\ session.status = "completed"
               => /\ Present(session.answers)
                  /\ Present(session.result)
                  /\ Present(session.submitted_at)
       /\ \A test_id \in DOMAIN store :
            (\/ store'[test_id].answers # store[test_id].answers
             \/ store'[test_id].result # store[test_id].result
             \/ store'[test_id].submitted_at # store[test_id].submitted_at)
            => /\ \E p \in Procs : SubmitWriteStep(p) /\ arg[p].test_id = test_id
               /\ store'[test_id].status = "completed"
               /\ Present(store'[test_id].answers)
               /\ Present(store'[test_id].result)
               /\ Present(store'[test_id].submitted_at)]_vars

C25_Witness ==
    \E test_id \in DOMAIN store :
        /\ store[test_id].status = "completed"
        /\ Len(store[test_id].answers[1]) = 1
        /\ store[test_id].result[1].total_questions = 2
        /\ store[test_id].submitted_at = <<1>>

\* The text of an id, by which ids of either form are compared.
SameId(a, b) == ToString(a) = ToString(b)

\* C26: the TestResult of a submission to a session with at least one
\* question carries the test_id of the TestSubmission.
C26_ResultTestId ==
    \A p \in Procs :
        (Evaluated(p) /\ Len(QuestionsOf(p)) >= 1)
        => SameId(ResultOf(p).test_id, arg[p].test_id)

\* C27: when generate_test ends with an error, the store holds no session
\* created by that request.
C27_NoSessionOnError ==
    [][\A p \in Procs :
        /\ (GenerateCreateStep(p) /\ response'[p].kind = "error") => store' = store
        /\ (GenerateRespondStep(p) /\ response'[p].kind = "error")
           => tmp[p].test_id \notin DOMAIN store']_vars

\* The suggestion generator's LLM call gave no list of strings: it raised,
\* its text is not JSON, or its JSON is not a list of strings.
SuggestionCallUnusable(completion) ==
    \/ completion = ChatFailure
    \/ LET r == remove_code_block(completion) IN
        \/ ~json_loads_ok(r)
        \/ r[1].t # "array"
        \/ \E i \in DOMAIN r[1].items : ~IsJsonStr(r[1].items[i])

SuggestStep(p) == pc[p] = "chat_suggest" /\ pc'[p] = "idle"

\* C22: when the suggestion generator's LLM call raises, returns text that
\* is not JSON, or returns JSON that is not a list of strings, the chat turn
\* still completes with the assistant's reply, and the suggestions it
\* returns are the fixed default list.
C22_SuggestionFallback ==
    [][\A p \in Procs :
        (SuggestStep(p) /\ SuggestionCallUnusable(llm'[p]))
        => /\ response'[p].kind = "chat"
           /\ response'[p].body.message = tmp[p].assistant_content
           /\ response'[p].body.suggestions = fallback_suggestions]_vars

\* C24: check_session_exists answers exists = true exactly when a chat
\* session with the id is stored (a session without messages included), and
\* get_chat_history answers 404 only when no session with the id is stored.
C24_SessionExists ==
    [][\A p \in SessionProcs, session_id \in ChatSessionIds :
        /\ CheckSessionExists(p, session_id)
           => (response'[p].body.exists <=> session_id \in DOMAIN chat_sessions)
        /\ GetChatHistory(p, session_id)
           => (response'[p].kind = "not_found" => session_id \notin DOMAIN chat_sessions)]_vars

IsPrefix(a, b) == Len(a) <= Len(b) /\ SubSeq(b, 1, Len(a)) = a

\* The step with which process_chat_message returns its ChatResponse, and
\* the step in which it reads the history.
TurnSucceeds(p) ==
    /\ pc[p] \in {"chat_add_assistant", "chat_suggest"}
    /\ pc'[p] = "idle"
    /\ response'[p].kind = "chat"
ReadsHistory(p) == pc[p] = "chat_history" /\ pc'[p] = "chat_llm"

\* C28: the stored history of a chat session is append-only; a chat turn that
\* succeeds has added its user message directly followed by its own
\* assistant reply; the message list a turn sends to the LLM is the system
\* message followed by the stored history, whose last element is that turn's
\* user message.  Turns on one session may run concurrently.
C28_ChatHistory ==
    [][/\ \A session_id \in DOMAIN chat_sessions :
            /\ session_id \in DOMAIN chat_sessions'
            /\ IsPrefix(chat_sessions[session_id].messages,
                        chat_sessions'[session_id].messages)
       /\ \A p \in Procs :
            TurnSucceeds(p) =>
                LET messages == chat_sessions'[tmp[p].session_id].messages IN
                \E i \in 1..(Len(messages) - 1) :
                    /\ messages[i].role = "user"
                    /\ messages[i].content = arg[p].message
                    /\ messages[i + 1].role = "assistant"
                    /\ messages[i + 1].content = tmp[p].assistant_content
       /\ \A p \in Procs :
            ReadsHistory(p) =>
                LET history == chat_sessions[tmp[p].session_id].messages
                    sent == tmp'[p].llm_messages
                IN  /\ sent = <<system_message>> \o
                            [i \in DOMAIN history |->
                                [role |-> history[i].role, content |-> history[i].content]]
                    /\ sent[Len(sent)] = [role |-> "user", content |-> arg[p].message]]_vars

=============================================================================
